---- MODULE Spec2Model ----
(***************************************************************************)
(* Model of the documentation-serving proxy ("proxito") request resolution *)
(* (readthedocs/proxito/views/utils.py, readthedocs/proxito/urls.py) and   *)
(* of the Stripe subscription reconciliation                                *)
(* (readthedocs/subscriptions/managers.py).                                 *)
(*                                                                         *)
(* Python strings are modelled as sequences of tokens: the token "/" is    *)
(* the path separator and every other token is a slash-free segment, so    *)
(* "en/latest/index.html" is <<"en", "/", "latest", "/", "index.html">>    *)
(* and "" is <<>>.  Python's None is the one-token string <<"<None>">>,    *)
(* so that a value of type Optional[str] always is a sequence.             *)
(***************************************************************************)
EXTENDS Integers, Sequences, FiniteSets, TLC

\* ------------------------------------------------------------------ bounds

\* longest filename (in tokens) a direct call of the resolver is given
MaxFilenameLen == 2
\* longest path body (in tokens, after the optional projects/<slug> prefix)
MaxPathLen == 4
\* most items a Stripe subscription carries
MaxItems == 2
\* most Subscription rows created for one organization
MaxRows == 2

\* ----------------------------------------------------------------- strings

SEP == "/"
None == <<"<None>">>
EmptyStr == <<>>

\* Python truthiness of an Optional[str]: None and "" are falsy
Falsy(s) == s = None \/ s = EmptyStr
Truthy(s) == ~Falsy(s)

startswith_sep(s) == Len(s) > 0 /\ s[1] = SEP
endswith_sep(s) == Len(s) > 0 /\ s[Len(s)] = SEP

\* posixpath.join(a, b): an absolute b discards a; otherwise b is appended,
\* with a separator unless a is empty or already ends with one
join2(a, b) ==
    IF startswith_sep(b) THEN b
    ELSE IF a = EmptyStr \/ endswith_sep(a) THEN a \o b
    ELSE a \o <<SEP>> \o b

\* faulty variant: the version segment is left out of the joined filename
os_path_join_without_version(a, b, c) == join2(a, c)

\* os.path.join(lang_slug, version_slug, filename)
os_path_join(a, b, c) == join2(join2(a, b), c)

\* "<token>" in s, for a placeholder token of a urlconf
Contains(s, tok) == \E i \in 1..Len(s) : s[i] = tok

\* the strings of at most n tokens over the segments segs in which no two
\* segments are adjacent (every string has exactly one such tokenisation)
Canonical(s) == \A i \in 1..(Len(s) - 1) : s[i] = SEP \/ s[i + 1] = SEP

RECURSIVE StrsUpTo(_, _)
StrsUpTo(segs, n) ==
    IF n = 0 THEN {EmptyStr}
    ELSE LET shorter == StrsUpTo(segs, n - 1)
         IN  shorter \cup
             {x \in {s \o <<t>> : s \in {y \in shorter : Len(y) = n - 1},
                                   t \in segs \cup {SEP}} : Canonical(x)}

\* ---------------------------------------------------------------- projects

NoProject == "<no project>"

\* The project served on the request's host, its translation, its
\* subproject and the subproject's translation.
ProjectIds == {"pip", "pip-es", "sub", "sub-es"}

Language(p) == CASE p = "pip" -> <<"en">>
                 [] p = "pip-es" -> <<"es">>
                 [] p = "sub" -> <<"en">>
                 [] p = "sub-es" -> <<"es">>

DefaultVersion(p) == CASE p = "pip" -> <<"latest">>
                       [] p = "pip-es" -> <<"stable">>
                       [] p = "sub" -> <<"v1">>
                       [] p = "sub-es" -> <<"v2">>

\* project.translations.all()
Translations(p) == CASE p = "pip" -> {"pip-es"}
                     [] p = "sub" -> {"sub-es"}
                     [] OTHER -> {}

\* values of Project.urlconf
Urlconfs == {None,
             EmptyStr,
             <<"$language", SEP, "$version", SEP, "$filename">>,
             <<"$language", SEP, "$filename">>,
             <<"$version", SEP, "$filename">>,
             <<"$filename">>}

\* single_version flags and urlconfs the projects may be configured with:
\* the base project takes every urlconf, the others share one of two, and
\* the two translations share their single_version flag
ProjectConfigs ==
    {c \in [ProjectIds -> [single_version : BOOLEAN, urlconf : Urlconfs]] :
        /\ c["pip-es"].urlconf \in {None, <<"$filename">>}
        /\ \A p \in ProjectIds \ {"pip"} : c[p].urlconf = c["pip-es"].urlconf
        /\ c["sub-es"].single_version = c["pip-es"].single_version}

\* Project.get_default_version(): the project's configured default version
get_default_version(p) == DefaultVersion(p)

\* -------------------------------------------------- views/utils.py resolver

VARIABLES
    projects,   \* the Project rows: single_version and urlconf of each
    request,    \* the request being handled and the attributes set on it
    view_args,  \* the arguments the view function was called with
    result,     \* what _get_project_data_from_request returned or raised
    prev,       \* the result of the call whose output was fed back, if any
    exception,  \* the 404 exception on its way to handler404, if any
    response,   \* the response sent, if any
    phase       \* where the request stands

Unset == <<"<unset>">>

\* faulty variant: project or subproject: the base project takes precedence
current_project_base_first(project, subproject) ==
    IF project # NoProject THEN project ELSE subproject

\* current_project = subproject or project
current_project_of(project, subproject) ==
    IF subproject # NoProject THEN subproject ELSE project

\* faulty variant: single_version is read from the translation lang_slug names
folds_on_translation(P, current_project, lang_slug, version_slug) ==
    LET translation ==
            IF Falsy(lang_slug) \/ lang_slug = Language(current_project)
            THEN current_project
            ELSE IF \E t \in Translations(current_project) : Language(t) = lang_slug
            THEN CHOOSE t \in Translations(current_project) : Language(t) = lang_slug
            ELSE current_project
    IN  /\ P[translation].single_version
        /\ Truthy(lang_slug) /\ Truthy(version_slug)

\* the single-version branch is taken and folds the slugs into the filename
folds(P, current_project, lang_slug, version_slug) ==
    /\ P[current_project].single_version
    /\ Truthy(lang_slug) /\ Truthy(version_slug)

\* faulty variant: the lookup does not filter by language
get_object_or_404_any_language(queryset, lang_slug) ==
    IF queryset = {} THEN NoProject ELSE CHOOSE t \in queryset : TRUE

\* get_object_or_404(queryset, language=lang_slug): the one project of the
\* queryset with that language, NoProject standing for Http404. (Languages
\* are unique among the translations of a project.)
get_object_or_404(queryset, lang_slug) ==
    LET found == {t \in queryset : Language(t) = lang_slug}
    IN  IF found = {} THEN NoProject ELSE CHOOSE t \in found : TRUE

\* faulty variant: the project's own language is looked up among its translations
resolve_translation_own_language_looked_up(current_project, lang_slug) ==
    IF Falsy(lang_slug) THEN current_project
    ELSE get_object_or_404(Translations(current_project), lang_slug)

\* if not lang_slug or lang_slug == current_project.language: ... else: ...
resolve_translation(current_project, lang_slug) ==
    IF Falsy(lang_slug) \/ lang_slug = Language(current_project)
    THEN current_project
    ELSE get_object_or_404(Translations(current_project), lang_slug)

\* faulty variant: only single-version projects get the default version
version_defaulted_single_version_only(P, project, final_project, version_slug) ==
    Falsy(version_slug) /\ P[final_project].single_version

\* faulty variant: every urlconf triggers the default, "$version" or not
version_defaulted_any_urlconf(P, project, final_project, version_slug) ==
    \/ Falsy(version_slug) /\ P[final_project].single_version
    \/ Falsy(version_slug) /\ Truthy(P[project].urlconf)

\* faulty variant: the urlconf of the final project is the one consulted
version_defaulted_on_final_urlconf(P, project, final_project, version_slug) ==
    \/ Falsy(version_slug) /\ P[final_project].single_version
    \/ /\ Falsy(version_slug)
       /\ Truthy(P[final_project].urlconf)
       /\ ~Contains(P[final_project].urlconf, "$version")

\* the any([...]) that guards version defaulting
version_defaulted(P, project, final_project, version_slug) ==
    \/ Falsy(version_slug) /\ P[final_project].single_version
    \/ /\ Falsy(version_slug)
       /\ Truthy(P[project].urlconf)
       /\ ~Contains(P[project].urlconf, "$version")

\* faulty variant: the urlconf is searched for "$version" instead of "$language"
language_defaulted_by_version_token(P, project, lang_slug) ==
    /\ Falsy(lang_slug)
    /\ Truthy(P[project].urlconf)
    /\ ~Contains(P[project].urlconf, "$version")

\* faulty variant: a urlconf that is not set counts as lacking "$language"
language_defaulted_without_urlconf(P, project, lang_slug) ==
    /\ Falsy(lang_slug)
    /\ ~Contains(P[project].urlconf, "$language")

\* the condition that guards language defaulting
language_defaulted(P, project, lang_slug) ==
    /\ Falsy(lang_slug)
    /\ Truthy(P[project].urlconf)
    /\ ~Contains(P[project].urlconf, "$language")

NoResult == [raised |-> FALSE, returned |-> FALSE, final_project |-> NoProject,
             lang_slug |-> None, version_slug |-> None, filename |-> EmptyStr]

Http404Result == [NoResult EXCEPT !.raised = TRUE]

\* _get_project_data_from_request(request, project, subproject, lang_slug,
\* version_slug, filename), P being the Project table
get_project_data_from_request(P, project, subproject, lang_slug, version_slug, filename) ==
    LET current_project == current_project_of(project, subproject)
        fold == folds(P, current_project, lang_slug, version_slug)
        filename1 == IF fold THEN os_path_join(lang_slug, version_slug, filename)
                     ELSE filename
        lang1 == IF fold THEN None ELSE lang_slug
        version1 == IF fold THEN None ELSE version_slug
        final_project == resolve_translation(current_project, lang1)
    IN  IF final_project = NoProject THEN Http404Result
        ELSE LET version2 ==
                     IF version_defaulted(P, project, final_project, version1)
                     THEN get_default_version(final_project) ELSE version1
                 lang2 ==
                     IF language_defaulted(P, project, lang1)
                     THEN Language(final_project) ELSE lang1
             IN  [raised |-> FALSE, returned |-> TRUE,
                  final_project |-> final_project,
                  lang_slug |-> lang2, version_slug |-> version2,
                  filename |-> filename1]

\* faulty variant: the attributes are written before the translation lookup
annotated_before_lookup(req, res) ==
    [req EXCEPT !.path_project_slug = <<res.final_project>>,
                !.path_version_slug = res.version_slug]

\* request.path_project_slug and request.path_version_slug after the call
annotated(req, res) ==
    IF res.returned
    THEN [req EXCEPT !.path_project_slug = <<res.final_project>>,
                     !.path_version_slug = res.version_slug]
    ELSE req

\* ------------------------------------------------------------- urls.py routes

\* pattern_opts: the tokens a language, version and project slug may match.
\* A filename (filename_slug) is any string, the empty one included.
LanguageCodes == {"en", "es", "fr"}
lang_slug_matches(t) == t \in LanguageCodes
version_slug_matches(t) == t \notin {SEP, "_proxito_404_"}
project_slug_matches(t) == t \notin {SEP, "robots.txt", "sitemap.xml"}

Rest(s, k) == SubSeq(s, k + 1, Len(s))

NoKwargs == [subproject_slug |-> None, lang_slug |-> None, version_slug |-> None,
             filename |-> None, subproject_slash |-> None, proxito_path |-> None]

NoMatch == [matched |-> FALSE, kwargs |-> NoKwargs]
Matched(kw) == [matched |-> TRUE, kwargs |-> kw]

\* ^(?:projects/(?P<subproject_slug>{project_slug})/)?  matched by the path
has_subproject_prefix(path) ==
    /\ Len(path) >= 4
    /\ path[1] = "projects" /\ path[2] = SEP
    /\ project_slug_matches(path[3]) /\ path[4] = SEP

\* page/(?P<filename>.*)$
page_body(rest) ==
    IF Len(rest) >= 2 /\ rest[1] = "page" /\ rest[2] = SEP
    THEN Matched([NoKwargs EXCEPT !.filename = Rest(rest, 2)])
    ELSE NoMatch

\* (?P<lang_slug>..)/(?P<version_slug>..)/(?P<filename>{filename_slug})$
detail_body(rest) ==
    IF /\ Len(rest) >= 4
       /\ lang_slug_matches(rest[1]) /\ rest[2] = SEP
       /\ version_slug_matches(rest[3]) /\ rest[4] = SEP
    THEN Matched([NoKwargs EXCEPT !.lang_slug = <<rest[1]>>,
                                  !.version_slug = <<rest[3]>>,
                                  !.filename = Rest(rest, 4)])
    ELSE NoMatch

\* (?P<lang_slug>..)/(?P<version_slug>..)$
directory_body(rest) ==
    IF /\ Len(rest) = 3
       /\ lang_slug_matches(rest[1]) /\ rest[2] = SEP
       /\ version_slug_matches(rest[3])
    THEN Matched([NoKwargs EXCEPT !.lang_slug = <<rest[1]>>,
                                  !.version_slug = <<rest[3]>>])
    ELSE NoMatch

\* what follows the optional subproject prefix in the three patterns with one
body_match(kind, rest) ==
    CASE kind = "redirect_page_with_filename" -> page_body(rest)
      [] kind = "docs_detail" -> detail_body(rest)
      [] kind = "docs_detail_directory_indexing" -> directory_body(rest)

\* a pattern that starts with the optional subproject prefix: the regex
\* engine first tries the prefix and falls back to matching without it
with_optional_prefix(kind, path) ==
    LET inner == IF has_subproject_prefix(path)
                 THEN body_match(kind, Rest(path, 4)) ELSE NoMatch
    IN  IF inner.matched
        THEN Matched([inner.kwargs EXCEPT !.subproject_slug = <<path[3]>>])
        ELSE body_match(kind, path)

\* ^(?:projects/(?P<subproject_slug>..)(?P<subproject_slash>/?))?(?P<filename>..)$
singleversion_match(path) ==
    IF /\ Len(path) >= 3
       /\ path[1] = "projects" /\ path[2] = SEP /\ project_slug_matches(path[3])
    THEN LET slash == Len(path) >= 4 /\ path[4] = SEP
         IN  Matched([NoKwargs EXCEPT
                 !.subproject_slug = <<path[3]>>,
                 !.subproject_slash = IF slash THEN <<SEP>> ELSE EmptyStr,
                 !.filename = Rest(path, IF slash THEN 4 ELSE 3)])
    ELSE Matched([NoKwargs EXCEPT !.filename = path])

\* ^_proxito_404_(?P<proxito_path>.*)$
proxito_404_match(path) ==
    IF Len(path) >= 1 /\ path[1] = "_proxito_404_"
    THEN Matched([NoKwargs EXCEPT !.proxito_path = Rest(path, 1)])
    ELSE NoMatch

\* robots\.txt$ and sitemap\.xml$ (searched, not anchored at the start)
endswith_match(path, file) ==
    IF Len(path) >= 1 /\ path[Len(path)] = file THEN Matched(NoKwargs) ELSE NoMatch

pattern_match(kind, path) ==
    CASE kind = "proxito_404_handler" -> proxito_404_match(path)
      [] kind = "robots_txt" -> endswith_match(path, "robots.txt")
      [] kind = "sitemap_xml" -> endswith_match(path, "sitemap.xml")
      [] kind \in {"redirect_page_with_filename", "docs_detail",
                   "docs_detail_directory_indexing"} ->
             with_optional_prefix(kind, path)
      [] kind = "docs_detail_singleversion_subproject" -> singleversion_match(path)

core_urls ==
    << [name |-> "proxito_404_handler", view |-> "ServeError404"],
       [name |-> "robots_txt", view |-> "ServeRobotsTXT"],
       [name |-> "sitemap_xml", view |-> "ServeSitemapXML"] >>

\* faulty variant: the directory-index route is listed after the single-version one
docs_urls_directory_index_last ==
    << [name |-> "redirect_page_with_filename", view |-> "ServePageRedirect"],
       [name |-> "docs_detail", view |-> "ServeDocs"],
       [name |-> "docs_detail_singleversion_subproject", view |-> "ServeDocs"],
       [name |-> "docs_detail_directory_indexing", view |-> "fast_404"] >>

docs_urls ==
    << [name |-> "redirect_page_with_filename", view |-> "ServePageRedirect"],
       [name |-> "docs_detail", view |-> "ServeDocs"],
       [name |-> "docs_detail_directory_indexing", view |-> "fast_404"],
       [name |-> "docs_detail_singleversion_subproject", view |-> "ServeDocs"] >>

\* the routes of urlpatterns that do not depend on settings.DOC_PATH_PREFIX
urlpatterns == core_urls \o docs_urls

NoRoute == "<None>"

\* Django's URL resolver: the first pattern of the list that matches
resolve(patterns, path) ==
    LET hits == {i \in 1..Len(patterns) : pattern_match(patterns[i].name, path).matched}
    IN  IF hits = {}
        THEN [url_name |-> NoRoute, view |-> NoRoute, kwargs |-> NoKwargs]
        ELSE LET first == CHOOSE i \in hits : \A j \in hits : i <= j
             IN  [url_name |-> patterns[first].name,
                  view |-> patterns[first].view,
                  kwargs |-> pattern_match(patterns[first].name, path).kwargs]

\* --------------------------------------------------- views/utils.py handlers

HTTP_NOT_FOUND == 404

NoTemplate == "<no template>"
DefaultTemplate == "errors/404/base.html"

NoResponse == [status |-> 0, body |-> "<no response>", template |-> NoTemplate,
               path_not_found |-> None]

NoException == [kind |-> "<none>", template_name |-> NoTemplate,
                http_status |-> HTTP_NOT_FOUND, path_not_found |-> None]

\* raise Http404
Http404 == [NoException EXCEPT !.kind = "Http404"]

\* raise ContextualizedHttp404 subclass: its template, its status and the
\* "path_not_found" entry of its context (None when the context has none)
ContextualizedHttp404(template, status, path_not_found) ==
    [kind |-> "ContextualizedHttp404", template_name |-> template,
     http_status |-> status, path_not_found |-> path_not_found]

\* fast_404: HttpResponse("Not Found.", status=404)
fast_404 ==
    [status |-> HTTP_NOT_FOUND, body |-> "Not Found.", template |-> NoTemplate,
     path_not_found |-> None]

\* render(request, template_name, context=context), then r.status_code = ..
render(template_name, path_not_found, http_status) ==
    [status |-> http_status, body |-> "rendered", template |-> template_name,
     path_not_found |-> path_not_found]

\* request.path: the path the URL resolver saw, with its leading slash
request_path(req) == <<SEP>> \o req.path

\* faulty variant: the test of the route name is inverted
proxito_404_page_handler_inverted(req, exc) ==
    IF req.resolver_match = "proxito_404_handler"
    THEN fast_404
    ELSE render(IF exc.kind = "ContextualizedHttp404" THEN exc.template_name
                ELSE DefaultTemplate,
                IF exc.kind = "ContextualizedHttp404" /\ Truthy(exc.path_not_found)
                THEN exc.path_not_found ELSE request_path(req),
                IF exc.kind = "ContextualizedHttp404" THEN exc.http_status
                ELSE HTTP_NOT_FOUND)

\* faulty variant: an empty path_not_found of the context is kept
proxito_404_page_handler_keeps_empty_path(req, exc) ==
    IF req.resolver_match # NoRoute /\ req.resolver_match # "proxito_404_handler"
    THEN fast_404
    ELSE LET contextualized == exc.kind = "ContextualizedHttp404"
         IN  render(IF contextualized THEN exc.template_name ELSE DefaultTemplate,
                    IF contextualized /\ exc.path_not_found # None
                    THEN exc.path_not_found ELSE request_path(req),
                    IF contextualized THEN exc.http_status ELSE HTTP_NOT_FOUND)

\* proxito_404_page_handler(request, template_name=DefaultTemplate, exception)
proxito_404_page_handler(req, exc) ==
    IF req.resolver_match # NoRoute /\ req.resolver_match # "proxito_404_handler"
    THEN fast_404
    ELSE LET contextualized == exc.kind = "ContextualizedHttp404"
             context_path == IF contextualized THEN exc.path_not_found ELSE None
             template_name == IF contextualized THEN exc.template_name
                              ELSE DefaultTemplate
             http_status == IF contextualized THEN exc.http_status
                            ELSE HTTP_NOT_FOUND
         IN  render(template_name,
                    IF Truthy(context_path) THEN context_path ELSE request_path(req),
                    http_status)

\* ------------------------------------------------------------------ requests

\* request paths: an optional subproject prefix, then a body; and some
\* paths of the other routes
PathPrefixes == {EmptyStr,
                 <<"projects", SEP, "sub", SEP>>,
                 <<"projects", SEP, "sub">>,
                 <<"projects", SEP, "nope", SEP>>}

PathBodies == StrsUpTo({"en", "latest", "page"}, MaxPathLen)

Paths ==
    {p \in {pre \o body : pre \in PathPrefixes, body \in PathBodies} : Canonical(p)}
    \cup {pre \o <<f>> : pre \in {EmptyStr, <<"en", SEP>>},
                         f \in {"robots.txt", "sitemap.xml"}}
    \cup {<<"_proxito_404_">> \o rest :
             rest \in {EmptyStr, <<SEP, "en", SEP, "latest", SEP, "index.html">>}}

\* arguments of a direct call of the resolver
LangSlugs == {None, EmptyStr, <<"en">>, <<"es">>, <<"fr">>}
VersionSlugs == {None, EmptyStr, <<"latest">>, <<"v9">>}
Filenames == StrsUpTo({"index.html"}, MaxFilenameLen)

\* exceptions the views outside this file raise
RaisedExceptions ==
    {Http404,
     ContextualizedHttp404("errors/404/no_project.html", HTTP_NOT_FOUND, None),
     ContextualizedHttp404("errors/404/no_version.html", HTTP_NOT_FOUND, EmptyStr),
     ContextualizedHttp404("errors/404/no_file.html", 410, <<SEP, "missing">>)}

NewRequest(path, match) ==
    [path |-> path, resolver_match |-> match.url_name, view |-> match.view,
     kwargs |-> match.kwargs,
     path_project_slug |-> Unset, path_version_slug |-> Unset]

Unmatched == [url_name |-> NoRoute, view |-> NoRoute, kwargs |-> NoKwargs]

NoArgs == [project |-> NoProject, subproject |-> NoProject, lang_slug |-> None,
           version_slug |-> None, filename |-> EmptyStr]

\* @map_project_slug: the project of the request's host
map_project_slug == "pip"

\* @map_subproject_slug: the subproject of `project` with that slug,
\* NoProject when no slug was given, "<404>" when there is none
map_subproject_slug(project, subproject_slug) ==
    IF Falsy(subproject_slug) THEN NoProject
    ELSE IF project = "pip" /\ subproject_slug = <<"sub">> THEN "sub"
    ELSE "<404>"

\* ------------------------------------------------ subscriptions/managers.py

VARIABLES
    plans,                \* the Plan table
    organization,         \* the Organization row of the subscription
    subscription,         \* the Subscription row (rtd_subscription)
    stripe_subscription,  \* the Stripe subscription of the last update
    saved,                \* the rows the last update saved
    subscription_rows,    \* how many Subscription rows the organization has
    stripe_created,       \* how many get_or_create_stripe_subscription calls
    returned              \* what get_or_create_default_subscription returned

\* timestamps are written as dates; NoDate is None
NoDate == "<None>"
NoPlan == "<no plan>"

Statuses == {"active", "past_due", "canceled", "unpaid"}
StripeIds == {"sub_A", "sub_B"}
Prices == {"price_basic", "price_x"}

\* current_period_start and current_period_end as Stripe reports them
Periods == {[start |-> NoDate, end |-> NoDate],
            [start |-> "2024-05-01", end |-> "2024-06-01"]}
TrialEnds == {NoDate, "2024-05-15"}

Plan(slug, stripe_id, slug_custom, name_custom) ==
    [slug |-> slug, stripe_id |-> stripe_id,
     slug_custom |-> slug_custom, name_custom |-> name_custom]

\* Plan tables: "basic" is sold at price_basic and "legacy" is no longer
\* sold; price_x is the price of no plan, of a custom plan alone, of two
\* plans, or of a plan and a custom plan
PlanTables ==
    LET basic == Plan("basic", "price_basic", FALSE, FALSE)
        legacy == Plan("legacy", "price_legacy", FALSE, FALSE)
    IN  { {basic, legacy},
          {basic, legacy, Plan("acme-custom", "price_x", TRUE, FALSE)},
          {basic, legacy, Plan("pro", "price_x", FALSE, FALSE),
                          Plan("pro-legacy", "price_x", FALSE, FALSE)},
          {basic, legacy, Plan("pro", "price_x", FALSE, FALSE),
                          Plan("acme", "price_x", FALSE, TRUE)} }

RECURSIVE SeqsUpTo(_, _)
SeqsUpTo(S, n) ==
    IF n = 0 THEN {<<>>}
    ELSE LET shorter == SeqsUpTo(S, n - 1)
         IN  shorter \cup {s \o <<x>> : s \in {y \in shorter : Len(y) = n - 1},
                                        x \in S}

\* the Stripe subscriptions an event may carry; items holds the price id of
\* each subscription item, in order
StripeSubscriptions ==
    {[id |-> id, status |-> status,
      current_period_start |-> period.start, current_period_end |-> period.end,
      trial_end |-> trial_end, items |-> items] :
        id \in StripeIds, status \in Statuses, period \in Periods,
        trial_end \in TrialEnds, items \in SeqsUpTo(Prices, MaxItems)}

NoStripeSubscription ==
    [id |-> "", status |-> "<none>", current_period_start |-> NoDate,
     current_period_end |-> NoDate, trial_end |-> NoDate, items |-> <<>>]

\* SubscriptionManager._get_plan(stripe_price): the one plan with that price
\* that is not custom by slug or by name, NoPlan when there is none or several
get_plan(table, stripe_price) ==
    LET found == {pl \in table : /\ ~pl.slug_custom
                                 /\ ~pl.name_custom
                                 /\ pl.stripe_id = stripe_price}
    IN  IF Cardinality(found) = 1 THEN (CHOOSE pl \in found : TRUE).slug
        ELSE NoPlan

\* faulty variant: only the first item is looked up
first_plan_of_first_item(table, items) ==
    IF items = <<>> THEN NoPlan ELSE get_plan(table, Head(items))

\* the for ... else over stripe_subscription.items: the plan of the first
\* item that has one, NoPlan when no item has
RECURSIVE first_plan(_, _)
first_plan(table, items) ==
    IF items = <<>> THEN NoPlan
    ELSE IF get_plan(table, Head(items)) # NoPlan
    THEN get_plan(table, Head(items))
    ELSE first_plan(table, Tail(items))

\* faulty variant: a stripe_id already set is kept
new_stripe_id_only_when_empty(rtd, stripe) ==
    IF rtd.stripe_id = "" THEN stripe.id ELSE rtd.stripe_id

\* rtd_subscription.stripe_id: replaced when Stripe's id is another one
new_stripe_id(rtd, stripe) ==
    IF stripe.id # rtd.stripe_id THEN stripe.id ELSE rtd.stripe_id

\* faulty variant: an absent trial_end clears the date
new_trial_end_date_cleared_when_absent(rtd, stripe) == stripe.trial_end

\* rtd_subscription.trial_end_date: updated if Stripe's trial_end is present
new_trial_end_date(rtd, stripe) ==
    IF stripe.trial_end # NoDate THEN stripe.trial_end ELSE rtd.trial_end_date

\* rtd_subscription.plan: the first plan found, the old plan on a miss
new_plan(table, rtd, stripe) ==
    LET plan == first_plan(table, stripe.items)
    IN  IF plan # NoPlan THEN plan ELSE rtd.plan

\* faulty variant: the period end is taken whatever the status
new_end_date_on_every_status(rtd, stripe) ==
    IF stripe.current_period_end # NoDate THEN stripe.current_period_end
    ELSE rtd.end_date

\* rtd_subscription.end_date: the period end of an active subscription, the
\* period start of a past_due one, else the date it had
new_end_date(rtd, stripe) ==
    IF stripe.status = "active" /\ stripe.current_period_end # NoDate
    THEN stripe.current_period_end
    ELSE IF stripe.status = "past_due" /\ stripe.current_period_start # NoDate
    THEN stripe.current_period_start
    ELSE rtd.end_date

\* rtd_subscription as update_from_stripe saves it
updated_subscription(table, rtd, stripe) ==
    [status |-> stripe.status,
     stripe_id |-> new_stripe_id(rtd, stripe),
     trial_end_date |-> new_trial_end_date(rtd, stripe),
     plan |-> new_plan(table, rtd, stripe),
     start_date |-> rtd.start_date,
     end_date |-> new_end_date(rtd, stripe)]

\* faulty variant: the status the subscription had before the update is tested
reenables_on_old_status(org, stripe) ==
    subscription.status = "active" /\ org.disabled

\* the organization is re-enabled: stripe status "active" and it is disabled
reenables(org, stripe) == stripe.status = "active" /\ org.disabled

\* SubscriptionManager.update_from_stripe(rtd_subscription, stripe_subscription)
update_from_stripe ==
    \E stripe \in StripeSubscriptions :
        /\ stripe_subscription' = stripe
        /\ subscription' = updated_subscription(plans, subscription, stripe)
        /\ organization' = IF reenables(organization, stripe)
                           THEN [organization EXCEPT !.disabled = FALSE]
                           ELSE organization
        /\ saved' = IF reenables(organization, stripe)
                    THEN {"organization", "subscription"}
                    ELSE {"subscription"}
        /\ UNCHANGED plans

\* settings.RTD_ORG_DEFAULT_STRIPE_SUBSCRIPTION_PRICE
RTD_ORG_DEFAULT_STRIPE_SUBSCRIPTION_PRICE == "price_x"

\* the organization without a subscription attached
NoSubscription ==
    [status |-> "<none>", stripe_id |-> "", trial_end_date |-> NoDate,
     plan |-> NoPlan, start_date |-> NoDate, end_date |-> NoDate]

\* faulty variant: the subscription attached to the organization is not seen
has_subscription_never == FALSE

\* hasattr(organization, 'subscription')
has_subscription == subscription_rows > 0

\* Plan.objects.filter(stripe_id=<default price>): .first() takes the plan
\* of lowest primary key, which may be any of them
default_plans(table) ==
    {pl \in table : pl.stripe_id = RTD_ORG_DEFAULT_STRIPE_SUBSCRIPTION_PRICE}

\* the Stripe subscriptions get_or_create_stripe_subscription may hand back
DefaultStripeSubscriptions ==
    {[id |-> id, status |-> status, start_date |-> "2024-04-01",
      current_period_end |-> "2024-06-01", trial_end |-> trial_end] :
        id \in StripeIds, status \in {"trialing", "active"},
        trial_end \in TrialEnds}

\* self.create(plan=plan, organization=organization, ...)
created_subscription(plan, stripe) ==
    [status |-> stripe.status, stripe_id |-> stripe.id,
     trial_end_date |-> stripe.trial_end, plan |-> plan.slug,
     start_date |-> stripe.start_date,
     end_date |-> stripe.current_period_end]

\* SubscriptionManager.get_or_create_default_subscription(organization)
get_or_create_default_subscription ==
    IF has_subscription
    THEN /\ returned' = "subscription"
         /\ UNCHANGED <<subscription, subscription_rows, stripe_created>>
    ELSE IF default_plans(plans) = {}
    THEN /\ returned' = "None"
         /\ UNCHANGED <<subscription, subscription_rows, stripe_created>>
    ELSE \E plan \in default_plans(plans),
            stripe \in DefaultStripeSubscriptions :
             /\ subscription_rows < MaxRows
             /\ stripe_created' = stripe_created + 1
             /\ subscription' = created_subscription(plan, stripe)
             /\ subscription_rows' = subscription_rows + 1
             /\ returned' = "subscription"

\* ------------------------------------------------------------ specifications

proxito_vars ==
    <<projects, request, view_args, result, prev, exception, response, phase>>
default_vars == <<subscription_rows, stripe_created, returned>>
stripe_vars == <<plans, organization, subscription, stripe_subscription, saved,
                 default_vars>>
vars == <<proxito_vars, stripe_vars>>

\* no subscription has been updated yet
StripeIdle ==
    /\ plans = {Plan("basic", "price_basic", FALSE, FALSE)}
    /\ organization = [disabled |-> FALSE]
    /\ subscription = [status |-> "trialing", stripe_id |-> "sub_A",
                       trial_end_date |-> NoDate, plan |-> "basic",
                       start_date |-> NoDate, end_date |-> NoDate]
    /\ stripe_subscription = NoStripeSubscription
    /\ saved = {}
    /\ subscription_rows = 1
    /\ stripe_created = 0
    /\ returned = "<none>"

\* no request has been made yet
ProxitoIdle ==
    /\ request = NewRequest(EmptyStr, Unmatched)
    /\ view_args = NoArgs
    /\ result = NoResult
    /\ prev = NoResult
    /\ exception = NoException
    /\ response = NoResponse
    /\ phase = "start"

Init ==
    /\ projects \in ProjectConfigs
    /\ ProxitoIdle
    /\ StripeIdle

\* the URL resolver routes a new request
Dispatch ==
    \E path \in Paths :
        /\ phase = "start"
        /\ request' = NewRequest(path, resolve(urlpatterns, path))
        /\ view_args' = NoArgs
        /\ result' = NoResult
        /\ prev' = NoResult
        /\ exception' = NoException
        /\ response' = NoResponse
        /\ phase' = "routed"
        /\ UNCHANGED <<projects, stripe_vars>>

\* a request for a host that maps to no project: the middleware raises
\* Http404 before any route is matched
UnknownHost ==
    \E path \in {EmptyStr, <<"en", SEP, "latest", SEP>>} :
        /\ phase = "start"
        /\ request' = NewRequest(path, Unmatched)
        /\ view_args' = NoArgs
        /\ result' = NoResult
        /\ prev' = NoResult
        /\ exception' = Http404
        /\ response' = NoResponse
        /\ phase' = "raised"
        /\ UNCHANGED <<projects, stripe_vars>>

\* the state after _get_project_data_from_request(req, **args) was called
Called(req, args) ==
    LET res == get_project_data_from_request(projects, args.project,
                   args.subproject, args.lang_slug, args.version_slug,
                   args.filename)
    IN  /\ view_args' = args
        /\ result' = res
        /\ request' = annotated(req, res)
        /\ exception' = IF res.raised THEN Http404 ELSE NoException
        /\ phase' = IF res.raised THEN "raised" ELSE "returned"

\* ServeDocs.get: resolves the project data of the routed request
ServeDocs ==
    /\ phase = "routed"
    /\ request.view = "ServeDocs"
    /\ LET project == map_project_slug
           subproject == map_subproject_slug(project, request.kwargs.subproject_slug)
       IN  IF subproject = "<404>"
           THEN /\ exception' = Http404
                /\ phase' = "raised"
                /\ UNCHANGED <<request, view_args, result>>
           ELSE Called(request, [project |-> project, subproject |-> subproject,
                   lang_slug |-> request.kwargs.lang_slug,
                   version_slug |-> request.kwargs.version_slug,
                   filename |-> request.kwargs.filename])
    /\ UNCHANGED <<projects, prev, response, stripe_vars>>

\* the directory-index route answers with fast_404 itself
Fast404View ==
    /\ phase = "routed"
    /\ request.view = "fast_404"
    /\ response' = fast_404
    /\ phase' = "responded"
    /\ UNCHANGED <<projects, request, view_args, result, prev, exception, stripe_vars>>

\* the other views (ServeError404, ServePageRedirect, ServeRobotsTXT,
\* ServeSitemapXML) answer or raise a 404 exception
OtherView ==
    /\ phase = "routed"
    /\ request.view \in {"ServeError404", "ServePageRedirect", "ServeRobotsTXT",
                         "ServeSitemapXML"}
    /\ \/ /\ response' = [NoResponse EXCEPT !.status = 200, !.body = "served"]
          /\ phase' = "responded"
          /\ UNCHANGED exception
       \/ \E exc \in RaisedExceptions :
              /\ exception' = exc
              /\ phase' = "raised"
              /\ UNCHANGED response
    /\ UNCHANGED <<projects, request, view_args, result, prev, stripe_vars>>

\* handler404: Django hands the exception to proxito_404_page_handler
Handler404 ==
    /\ phase = "raised"
    /\ response' = proxito_404_page_handler(request, exception)
    /\ phase' = "responded"
    /\ UNCHANGED <<projects, request, view_args, result, prev, exception, stripe_vars>>

\* another caller resolves project data with arguments of its own
Call ==
    \E subproject \in {NoProject, "sub"}, lang_slug \in LangSlugs,
       version_slug \in VersionSlugs, filename \in Filenames :
        /\ phase = "start"
        /\ Called(NewRequest(EmptyStr, Unmatched),
                  [project |-> map_project_slug, subproject |-> subproject,
                   lang_slug |-> lang_slug, version_slug |-> version_slug,
                   filename |-> filename])
        /\ prev' = NoResult
        /\ response' = NoResponse
        /\ UNCHANGED <<projects, stripe_vars>>

\* the returned slugs and filename are resolved once more
CallAgain ==
    /\ phase = "returned"
    /\ prev = NoResult
    /\ prev' = result
    /\ Called(request, [view_args EXCEPT !.lang_slug = result.lang_slug,
                                         !.version_slug = result.version_slug,
                                         !.filename = result.filename])
    /\ UNCHANGED <<projects, response, stripe_vars>>

\* the request is over; the next one starts from a clean slate
NextRequest ==
    /\ phase \in {"returned", "responded"}
    /\ request' = NewRequest(EmptyStr, Unmatched)
    /\ view_args' = NoArgs
    /\ result' = NoResult
    /\ prev' = NoResult
    /\ exception' = NoException
    /\ response' = NoResponse
    /\ phase' = "start"
    /\ UNCHANGED <<projects, stripe_vars>>

Next ==
    \/ NextRequest
    \/ Dispatch
    \/ UnknownHost
    \/ ServeDocs
    \/ Fast404View
    \/ OtherView
    \/ Handler404
    \/ Call
    \/ CallAgain

Spec == Init /\ [][Next]_vars

\* the subscription and its organization before the first Stripe event
InitStripe ==
    /\ plans \in PlanTables
    /\ organization \in [disabled : BOOLEAN]
    /\ subscription \in [status : {"trialing", "canceled"},
                          stripe_id : {"", "sub_A"},
                          trial_end_date : {NoDate}, plan : {"legacy"},
                          start_date : {NoDate}, end_date : {NoDate}]
    /\ stripe_subscription = NoStripeSubscription
    /\ saved = {}
    /\ subscription_rows = 1
    /\ stripe_created = 0
    /\ returned = "<none>"
    /\ projects = [p \in ProjectIds |-> [single_version |-> FALSE, urlconf |-> None]]
    /\ ProxitoIdle

\* a Stripe event updates the subscription
UpdateFromStripe ==
    update_from_stripe /\ UNCHANGED <<proxito_vars, default_vars>>

NextStripe == UpdateFromStripe

SpecStripe == InitStripe /\ [][NextStripe]_vars

\* the organization, with or without a subscription, before the first call
InitDefault ==
    /\ plans \in PlanTables
    /\ organization \in [disabled : BOOLEAN]
    /\ subscription \in {NoSubscription} \cup
           [status : {"trialing", "canceled"}, stripe_id : {"", "sub_A"},
            trial_end_date : {NoDate}, plan : {"basic"},
            start_date : {NoDate}, end_date : {NoDate}]
    /\ subscription_rows = IF subscription = NoSubscription THEN 0 ELSE 1
    /\ stripe_created = 0
    /\ returned = "<none>"
    /\ stripe_subscription = NoStripeSubscription
    /\ saved = {}
    /\ projects = [p \in ProjectIds |-> [single_version |-> FALSE, urlconf |-> None]]
    /\ ProxitoIdle

\* the default subscription of the organization is asked for
GetOrCreateDefaultSubscription ==
    /\ get_or_create_default_subscription
    /\ UNCHANGED <<proxito_vars, plans, organization, stripe_subscription, saved>>

NextDefault == GetOrCreateDefaultSubscription

SpecDefault == InitDefault /\ [][NextDefault]_vars

\* ------------------------------------------------------------------- claims

\* _get_project_data_from_request was called with view_args
WasCalled == view_args.project # NoProject
HasReturned == WasCalled /\ result.returned
HasRaised == WasCalled /\ result.raised

\* the project the call started from: the subproject if there is one
CalledOn == IF view_args.subproject # NoProject THEN view_args.subproject
            ELSE view_args.project

BaseUrlconf == projects[view_args.project].urlconf
UrlconfLacks(tok) == Truthy(BaseUrlconf) /\ ~Contains(BaseUrlconf, tok)

\* the call folded the slugs it was given into the filename
Folded ==
    /\ projects[CalledOn].single_version
    /\ Truthy(view_args.lang_slug) /\ Truthy(view_args.version_slug)

\* handler404 has answered a 404 exception
Answered404 == phase = "responded" /\ exception.kind # "<none>"

\* C1 (as claimed): a 404 raised while the matched route is
\* "proxito_404_handler" gets the fast "Not Found." response.
C1_Original ==
    (Answered404 /\ request.resolver_match = "proxito_404_handler")
        => response = fast_404

\* C1 (amended): a 404 raised while the matched route is
\* "proxito_404_handler" is rendered from a template, with the template and
\* status of a ContextualizedHttp404 and the default template and 404
\* otherwise; the fast response goes to the 404s of every other matched route.
C1_Amended ==
    /\ (Answered404 /\ request.resolver_match = "proxito_404_handler")
          => /\ response.body = "rendered"
             /\ response.template =
                    IF exception.kind = "ContextualizedHttp404"
                    THEN exception.template_name ELSE DefaultTemplate
             /\ response.status =
                    IF exception.kind = "ContextualizedHttp404"
                    THEN exception.http_status ELSE 404
    /\ (Answered404 /\ request.resolver_match \notin {NoRoute, "proxito_404_handler"})
          => /\ response.body = "Not Found."
             /\ response.status = 404
             /\ response.template = NoTemplate

C1_Witness ==
    /\ Answered404
    /\ request.resolver_match = "proxito_404_handler"
    /\ exception.kind = "ContextualizedHttp404"
    /\ response.body = "rendered"
    /\ response.status = 410

\* C2 (as claimed): with a base urlconf that is None or lacks "$version" and
\* an empty version_slug, the returned version_slug is the default version of
\* the resolved project.
C2_Original ==
    (/\ HasReturned
     /\ Falsy(view_args.version_slug)
     /\ \/ BaseUrlconf = None
        \/ ~Contains(BaseUrlconf, "$version"))
        => result.version_slug = DefaultVersion(result.final_project)

\* C2 (amended): with an empty version_slug, the returned version_slug is the
\* default version of the resolved project when the base urlconf is a
\* non-empty string without "$version" or the resolved project is
\* single-version; with a urlconf that is None or "" and a resolved project
\* that is not single-version it is returned as empty as it came.
C2_Amended ==
    (HasReturned /\ Falsy(view_args.version_slug))
        => /\ (UrlconfLacks("$version")
                  \/ projects[result.final_project].single_version)
                 => result.version_slug = DefaultVersion(result.final_project)
           /\ (Falsy(BaseUrlconf)
                  /\ ~projects[result.final_project].single_version)
                 => result.version_slug = view_args.version_slug

C2_Witness ==
    /\ HasReturned
    /\ view_args.version_slug = EmptyStr
    /\ BaseUrlconf = <<"$language", SEP, "$filename">>
    /\ ~projects[result.final_project].single_version
    /\ result.final_project = "pip-es"
    /\ result.version_slug = <<"stable">>

\* C3 (as claimed): with a base urlconf containing "$version" and an empty
\* version_slug the returned version_slug is empty, whatever single_version.
C3_Original ==
    (/\ HasReturned
     /\ Falsy(view_args.version_slug)
     /\ Contains(BaseUrlconf, "$version"))
        => Falsy(result.version_slug)

\* C3 (amended): with a base urlconf containing "$version" and an empty
\* version_slug the returned version_slug is the empty one that was given when
\* the resolved project is not single-version; when it is single-version the
\* default version of the resolved project is substituted.
C3_Amended ==
    (/\ HasReturned
     /\ Falsy(view_args.version_slug)
     /\ Contains(BaseUrlconf, "$version"))
        => result.version_slug =
               IF projects[result.final_project].single_version
               THEN DefaultVersion(result.final_project)
               ELSE view_args.version_slug

C3_Witness ==
    /\ HasReturned
    /\ view_args.version_slug = EmptyStr
    /\ Contains(BaseUrlconf, "$version")
    /\ ~projects[result.final_project].single_version
    /\ result.version_slug = EmptyStr

\* lang_slug/version_slug/filename, written out
Slashed(lang_slug, version_slug, filename) ==
    lang_slug \o <<SEP>> \o version_slug \o <<SEP>> \o filename

\* C4 (as claimed): on a single-version project, with lang_slug, version_slug
\* and filename all given, the call returns filename =
\* lang_slug/version_slug/filename, lang_slug = None and version_slug = None.
C4_Original ==
    (/\ HasReturned
     /\ projects[CalledOn].single_version
     /\ Truthy(view_args.lang_slug) /\ Truthy(view_args.version_slug)
     /\ view_args.filename # EmptyStr)
        => /\ result.filename = Slashed(view_args.lang_slug,
                                        view_args.version_slug, view_args.filename)
           /\ result.lang_slug = None
           /\ result.version_slug = None

\* C4 (amended): on a single-version project, with lang_slug, version_slug
\* and filename all given, the call returns that project with filename =
\* lang_slug/version_slug/filename (a filename that starts with "/" is
\* returned as it is); version_slug = the project's default version; and
\* lang_slug = None, or the project's language when the base urlconf is a
\* non-empty string without "$language".
C4_Amended ==
    (/\ WasCalled
     /\ projects[CalledOn].single_version
     /\ Truthy(view_args.lang_slug) /\ Truthy(view_args.version_slug)
     /\ view_args.filename # EmptyStr)
        => /\ result.returned
           /\ result.final_project = CalledOn
           /\ result.filename =
                  IF view_args.filename[1] = SEP THEN view_args.filename
                  ELSE Slashed(view_args.lang_slug, view_args.version_slug,
                               view_args.filename)
           /\ result.version_slug = DefaultVersion(CalledOn)
           /\ result.lang_slug =
                  IF UrlconfLacks("$language") THEN Language(CalledOn) ELSE None

C4_Witness ==
    /\ HasReturned
    /\ projects[CalledOn].single_version
    /\ view_args.lang_slug = <<"en">>
    /\ view_args.version_slug = <<"latest">>
    /\ view_args.filename = <<"index.html">>
    /\ result.filename = <<"en", SEP, "latest", SEP, "index.html">>
    /\ result.lang_slug = None
    /\ result.version_slug = <<"v1">>

\* C5 (as claimed): every successful return carries a non-empty lang_slug
\* and a non-empty version_slug.
C5_Original ==
    HasReturned => Truthy(result.lang_slug) /\ Truthy(result.version_slug)

\* C5 (amended): on a successful return version_slug is non-empty exactly
\* when it was given, or the final project is single-version, or the base
\* urlconf is a non-empty string without "$version"; lang_slug is non-empty
\* exactly when it was given and not folded into the filename, or the base
\* urlconf is a non-empty string without "$language". Otherwise the call
\* returns them empty.
C5_Amended ==
    HasReturned =>
        /\ Truthy(result.version_slug) <=>
              \/ Truthy(view_args.version_slug)
              \/ projects[result.final_project].single_version
              \/ UrlconfLacks("$version")
        /\ Truthy(result.lang_slug) <=>
              \/ Truthy(view_args.lang_slug) /\ ~Folded
              \/ UrlconfLacks("$language")

C5_Witness ==
    /\ HasReturned
    /\ view_args.lang_slug = None /\ view_args.version_slug = None
    /\ ~projects[result.final_project].single_version
    /\ result.lang_slug = <<"en">> /\ result.version_slug = <<"latest">>

\* the four values a call returns
Outcome(r) == <<r.final_project, r.lang_slug, r.version_slug, r.filename>>

\* the output of a call was fed back and the second call is over
FedBack == WasCalled /\ prev.returned

\* C6 (as claimed): feeding the returned (lang_slug, version_slug, filename)
\* back, with the same project and subproject, returns the same values.
C6_Original ==
    FedBack => result.returned /\ Outcome(result) = Outcome(prev)

\* C6 (amended): feeding the returned values back returns the same values
\* unless the project the call starts from (the subproject, else the base
\* project) is single-version and the first call returned both lang_slug and
\* version_slug non-empty: the second call then folds them into the filename
\* (again), which changes every filename that does not start with "/".
C6_Amended ==
    FedBack =>
        LET refolds == /\ projects[CalledOn].single_version
                       /\ Truthy(prev.lang_slug) /\ Truthy(prev.version_slug)
        IN  /\ ~refolds => result.returned /\ Outcome(result) = Outcome(prev)
            /\ (refolds /\ ~startswith_sep(prev.filename))
                  => /\ result.returned
                     /\ result.filename =
                            Slashed(prev.lang_slug, prev.version_slug, prev.filename)

C6_Witness ==
    /\ FedBack
    /\ ~projects[CalledOn].single_version
    /\ prev.final_project = "pip-es"
    /\ prev.lang_slug = <<"es">> /\ prev.version_slug = <<"stable">>
    /\ result = prev

\* the path without its optional projects/<slug>/ prefix
Unprefixed(path) == IF has_subproject_prefix(path) THEN Rest(path, 4) ELSE path

\* <lang>/<version>, with or without a subproject prefix
BareLangVersion(path) ==
    LET r == Unprefixed(path)
    IN  /\ Len(r) = 3
        /\ lang_slug_matches(r[1]) /\ r[2] = SEP /\ version_slug_matches(r[3])

\* <lang>/<version>/, with or without a subproject prefix
SlashedLangVersion(path) ==
    LET r == Unprefixed(path)
    IN  /\ Len(r) = 4
        /\ lang_slug_matches(r[1]) /\ r[2] = SEP /\ version_slug_matches(r[3])
        /\ r[4] = SEP

Routed == request.resolver_match # NoRoute

\* C7 (as claimed): every path with a language and a version segment and an
\* empty filename is routed by docs_urls to fast_404, never to ServeDocs.
C7_Original ==
    (Routed /\ (BareLangVersion(request.path) \/ SlashedLangVersion(request.path)))
        => resolve(docs_urls, request.path).view = "fast_404"

\* C7 (amended): docs_urls routes <lang>/<version> without a trailing slash
\* (with or without subproject prefix) to fast_404, and such a request is
\* answered "Not Found." without resolving project data; <lang>/<version>/
\* with the trailing slash matches docs_detail with an empty filename and
\* reaches ServeDocs.
C7_Amended ==
    /\ (Routed /\ BareLangVersion(request.path))
          => /\ resolve(docs_urls, request.path).url_name =
                    "docs_detail_directory_indexing"
             /\ resolve(docs_urls, request.path).view = "fast_404"
    /\ (Routed /\ SlashedLangVersion(request.path))
          => /\ resolve(docs_urls, request.path).url_name = "docs_detail"
             /\ resolve(docs_urls, request.path).view = "ServeDocs"
             /\ resolve(docs_urls, request.path).kwargs.filename = EmptyStr
    /\ request.resolver_match = "docs_detail_directory_indexing"
          => /\ BareLangVersion(request.path)
             /\ ~WasCalled
             /\ phase = "responded" => response = fast_404

C7_Witness ==
    /\ request.path = <<"projects", SEP, "sub", SEP, "en", SEP, "latest">>
    /\ request.resolver_match = "docs_detail_directory_indexing"
    /\ phase = "responded"
    /\ response = fast_404

\* C8: on a project that is not single-version, an empty lang_slug or the
\* project's own language resolves to the project itself; another lang_slug
\* resolves to the translation of the project with exactly that language,
\* and when there is none the call raises Http404 and returns nothing.
C8_TranslationResolution ==
    (WasCalled /\ ~projects[CalledOn].single_version) =>
        IF Falsy(view_args.lang_slug) \/ view_args.lang_slug = Language(CalledOn)
        THEN result.returned /\ result.final_project = CalledOn
        ELSE IF \E t \in Translations(CalledOn) : Language(t) = view_args.lang_slug
        THEN /\ result.returned
             /\ result.final_project \in Translations(CalledOn)
             /\ Language(result.final_project) = view_args.lang_slug
        ELSE /\ result.raised /\ ~result.returned
             /\ result.final_project = NoProject
             /\ exception.kind = "Http404"

C8_Witness ==
    /\ WasCalled
    /\ ~projects["sub"].single_version
    /\ view_args.subproject = "sub"
    /\ view_args.lang_slug = <<"es">>
    /\ result.returned
    /\ result.final_project = "sub-es"

\* C9: the call starts from the subproject whenever one was resolved from
\* the URL and from the base project when no subproject slug was given, and
\* the final project is that project or one of its translations.
C9_SubprojectPrecedence ==
    /\ HasReturned =>
          /\ result.final_project \in {CalledOn} \cup Translations(CalledOn)
          /\ Falsy(view_args.lang_slug) => result.final_project = CalledOn
          /\ view_args.subproject # NoProject
                => result.final_project \notin
                       {view_args.project} \cup Translations(view_args.project)
    /\ (WasCalled /\ request.view = "ServeDocs") =>
          /\ view_args.project = "pip"
          /\ request.kwargs.subproject_slug = None
                => view_args.subproject = NoProject
          /\ request.kwargs.subproject_slug # None
                => <<view_args.subproject>> = request.kwargs.subproject_slug

C9_Witness ==
    /\ HasReturned
    /\ request.view = "ServeDocs"
    /\ request.kwargs.subproject_slug = <<"sub">>
    /\ view_args.lang_slug = <<"en">>
    /\ projects["sub"].single_version # projects["pip"].single_version
    /\ result.final_project = "sub"

\* C10: after every update that carried a Stripe subscription with status
\* "active" the organization is not disabled; an update that finds it
\* disabled then enables and saves it, and no update disables an organization.
C10_ActiveNeverDisabled ==
    /\ [](stripe_subscription.status = "active" => ~organization.disabled)
    /\ [][/\ ~organization.disabled => ~organization'.disabled
          /\ (organization.disabled /\ stripe_subscription'.status = "active")
                => /\ ~organization'.disabled
                   /\ "organization" \in saved']_vars

C10_Witness ==
    /\ stripe_subscription.status = "active"
    /\ "organization" \in saved
    /\ ~organization.disabled
    /\ subscription.status = "active"

\* an update_from_stripe call has been made
Updated == stripe_subscription # NoStripeSubscription

\* C11: after every update_from_stripe call the local status is the Stripe
\* status and the local stripe_id is the Stripe id, whatever they were before.
C11_StatusAndIdFollowStripe ==
    /\ [](Updated => /\ subscription.status = stripe_subscription.status
                      /\ subscription.stripe_id = stripe_subscription.id)
    /\ [][/\ subscription'.status = stripe_subscription'.status
          /\ subscription'.stripe_id = stripe_subscription'.id]_vars

C11_Witness ==
    /\ Updated
    /\ stripe_subscription.id = "sub_B"
    /\ stripe_subscription.status = "canceled"
    /\ subscription.stripe_id = "sub_B"
    /\ subscription.status = "canceled"
    /\ subscription.end_date = "2024-06-01"

\* C12: every update sets end_date to the Stripe period end when the status
\* is "active" and a period end is present, to the period start when the
\* status is "past_due" and a period start is present, and leaves it as it
\* was when the status is any other.
C12_EndDate ==
    [][LET stripe == stripe_subscription'
       IN  /\ (stripe.status = "active" /\ stripe.current_period_end # NoDate)
                 => subscription'.end_date = stripe.current_period_end
           /\ (stripe.status = "past_due"
                    /\ stripe.current_period_start # NoDate)
                 => subscription'.end_date = stripe.current_period_start
           /\ stripe.status \notin {"active", "past_due"}
                 => subscription'.end_date = subscription.end_date]_vars

C12_Witness ==
    /\ stripe_subscription.status = "unpaid"
    /\ stripe_subscription.current_period_end = "2024-06-01"
    /\ subscription.status = "unpaid"
    /\ subscription.end_date = "2024-05-01"

\* the organization has a subscription attached
Subscribed == subscription # NoSubscription
NoDefaultPlan ==
    \A pl \in plans : pl.stripe_id # RTD_ORG_DEFAULT_STRIPE_SUBSCRIPTION_PRICE

\* C13: a call of get_or_create_default_subscription for an organization
\* that has a subscription returns it as it is and creates neither a Stripe
\* subscription nor a local row; without a subscription and without a
\* default plan the call returns None and creates nothing; the organization
\* never has more than one local subscription.
C13_DefaultSubscriptionOnce ==
    /\ [](/\ subscription_rows <= 1
          /\ stripe_created <= 1
          /\ Subscribed <=> subscription_rows = 1)
    /\ [][/\ Subscribed
                => /\ returned' = "subscription"
                   /\ subscription' = subscription
                   /\ subscription_rows' = subscription_rows
                   /\ stripe_created' = stripe_created
          /\ (~Subscribed /\ NoDefaultPlan)
                => /\ returned' = "None"
                   /\ subscription' = NoSubscription
                   /\ subscription_rows' = 0
                   /\ stripe_created' = 0
          /\ (~Subscribed /\ ~NoDefaultPlan)
                => /\ returned' = "subscription"
                   /\ subscription'.plan \in {pl.slug : pl \in plans}
                   /\ subscription_rows' = 1
                   /\ stripe_created' = 1]_vars

C13_Witness ==
    /\ returned = "subscription"
    /\ stripe_created = 1
    /\ subscription_rows = 1
    /\ subscription.plan = "acme-custom"
    /\ subscription.status = "trialing"
    /\ subscription.start_date = "2024-04-01"

\* the final project is single-version and both slugs were supplied
FinalSingleVersion ==
    /\ projects[result.final_project].single_version
    /\ Truthy(view_args.lang_slug) /\ Truthy(view_args.version_slug)

JoinedFilename ==
    os_path_join(view_args.lang_slug, view_args.version_slug, view_args.filename)

\* C14 (as claimed): the slugs are folded into the filename exactly when the
\* final project is single-version and both slugs were supplied, also when
\* that final project is a single-version translation of a project that is
\* not single-version.
C14_Original ==
    HasReturned =>
        /\ FinalSingleVersion => result.filename = JoinedFilename
        /\ ~FinalSingleVersion => result.filename = view_args.filename

\* C14 (amended): the slugs are folded exactly when the project the call
\* starts from (the subproject, else the base project) is single-version and
\* both slugs were supplied; the call then returns that project without a
\* translation lookup. In every other case, a single-version translation of
\* a project that is not single-version included, the filename and the
\* supplied slugs are returned as they came.
C14_Amended ==
    /\ (WasCalled /\ Folded) =>
          /\ result.returned
          /\ result.final_project = CalledOn
          /\ result.filename = JoinedFilename
          /\ result.version_slug = DefaultVersion(CalledOn)
          /\ result.lang_slug \in {None, Language(CalledOn)}
    /\ (HasReturned /\ ~Folded) =>
          /\ result.filename = view_args.filename
          /\ Truthy(view_args.lang_slug)
                => result.lang_slug = view_args.lang_slug
          /\ Truthy(view_args.version_slug)
                => result.version_slug = view_args.version_slug

C14_Witness ==
    /\ HasReturned
    /\ view_args.subproject = NoProject
    /\ ~projects["pip"].single_version
    /\ projects["pip-es"].single_version
    /\ view_args.lang_slug = <<"es">>
    /\ view_args.version_slug = <<"latest">>
    /\ view_args.filename = <<"index.html">>
    /\ result.final_project = "pip-es"
    /\ result.filename = <<"index.html">>
    /\ result.lang_slug = <<"es">>
    /\ result.version_slug = <<"latest">>

\* C15: the returned version_slug is the final project's default version
\* exactly when version_slug was empty after the fold and the final project
\* is single-version or the base project's urlconf is set and lacks
\* "$version"; otherwise it is returned as it came. Only the base project's
\* urlconf enters.
C15_VersionDefaulting ==
    HasReturned =>
        result.version_slug =
            IF /\ Falsy(view_args.version_slug) \/ Folded
               /\ \/ projects[result.final_project].single_version
                  \/ UrlconfLacks("$version")
            THEN DefaultVersion(result.final_project)
            ELSE view_args.version_slug

C15_Witness ==
    /\ HasReturned
    /\ view_args.subproject = "sub"
    /\ result.final_project = "sub-es"
    /\ projects["sub-es"].urlconf = <<"$filename">>
    /\ ~projects["sub-es"].single_version
    /\ BaseUrlconf = <<"$language", SEP, "$version", SEP, "$filename">>
    /\ view_args.version_slug = None
    /\ result.version_slug = None

\* C16: the returned lang_slug is the final project's language exactly when
\* lang_slug was empty (not given, or cleared by the fold) and the base
\* project's urlconf is set and lacks "$language", whether or not the version
\* was defaulted; otherwise it is returned as it stood.
C16_LanguageDefaulting ==
    HasReturned =>
        result.lang_slug =
            IF (Falsy(view_args.lang_slug) \/ Folded) /\ UrlconfLacks("$language")
            THEN Language(result.final_project)
            ELSE IF Folded THEN None
            ELSE view_args.lang_slug

C16_Witness ==
    /\ HasReturned
    /\ view_args.subproject = "sub"
    /\ BaseUrlconf = <<"$version", SEP, "$filename">>
    /\ ~projects["sub"].single_version
    /\ view_args.lang_slug = EmptyStr
    /\ view_args.version_slug = None
    /\ result.lang_slug = <<"en">>
    /\ result.version_slug = None

\* C17 (as claimed): a 404 raised while the request's resolver_match names
\* another route than "proxito_404_handler", or is absent, gets the fast
\* response: status 404 and no template rendered.
C17_Original ==
    (Answered404 /\ request.resolver_match # "proxito_404_handler")
        => /\ response.status = HTTP_NOT_FOUND
           /\ response.template = NoTemplate
           /\ response.body = "Not Found."

\* C18: a page rendered by proxito_404_page_handler has the template and
\* status of the exception if it is a ContextualizedHttp404, else the default
\* template and status 404; its path_not_found is not empty: the one of the
\* exception's context when that has one, else request.path.
C18_RenderedPage ==
    (Answered404 /\ response.body = "rendered") =>
        /\ exception.kind = "ContextualizedHttp404"
              => /\ response.template = exception.template_name
                 /\ response.status = exception.http_status
        /\ exception.kind # "ContextualizedHttp404"
              => /\ response.template = DefaultTemplate
                 /\ response.status = HTTP_NOT_FOUND
        /\ Truthy(response.path_not_found)
        /\ response.path_not_found =
              IF /\ exception.kind = "ContextualizedHttp404"
                 /\ Truthy(exception.path_not_found)
              THEN exception.path_not_found
              ELSE <<SEP>> \o request.path

C18_Witness ==
    /\ Answered404
    /\ response.body = "rendered"
    /\ exception.kind = "ContextualizedHttp404"
    /\ exception.path_not_found = EmptyStr
    /\ response.template = "errors/404/no_version.html"
    /\ response.path_not_found = <<SEP, "_proxito_404_">>

\* C19: after a successful return request.path_project_slug is the slug of
\* the returned project and request.path_version_slug the returned
\* version_slug; after the translation lookup raised neither is written.
C19_RequestAnnotations ==
    /\ HasReturned =>
          /\ request.path_project_slug = <<result.final_project>>
          /\ request.path_version_slug = result.version_slug
    /\ HasRaised =>
          /\ request.path_project_slug = Unset
          /\ request.path_version_slug = Unset

C19_Witness ==
    /\ HasReturned
    /\ view_args.subproject = "sub"
    /\ view_args.lang_slug = <<"es">>
    /\ view_args.version_slug = EmptyStr
    /\ request.path_project_slug = <<"sub-es">>
    /\ request.path_version_slug = <<"v2">>

\* the plan is not custom and is sold at that price
Saleable(pl, price) ==
    pl.stripe_id = price /\ ~pl.slug_custom /\ ~pl.name_custom

\* exactly one plan is not custom and sold at that price
Hit(price) ==
    \E pl \in plans : /\ Saleable(pl, price)
                       /\ \A other \in plans : Saleable(other, price) => other = pl

\* C20: every update sets the plan to the plan of the first item, in item
\* order, whose price is that of exactly one non-custom plan; when no item
\* has such a price the plan stays as it was, and status, stripe_id, end
\* date, re-enabling and save happen all the same. A trial_end that is
\* present replaces trial_end_date and one that is absent leaves it.
C20_PlanAndTrialEnd ==
    /\ [](LET stripe == stripe_subscription
              items == stripe.items
          IN  /\ \A i \in 1..Len(items) :
                    (Hit(items[i]) /\ \A j \in 1..(i - 1) : ~Hit(items[j]))
                        => \E pl \in plans : /\ Saleable(pl, items[i])
                                              /\ subscription.plan = pl.slug
              /\ (Updated /\ \A i \in 1..Len(items) : ~Hit(items[i]))
                    => /\ subscription.status = stripe.status
                       /\ subscription.stripe_id = stripe.id
                       /\ (stripe.status = "active"
                               /\ stripe.current_period_end # NoDate)
                             => subscription.end_date = stripe.current_period_end
                       /\ stripe.status = "active" => ~organization.disabled
                       /\ "subscription" \in saved
              /\ stripe.trial_end # NoDate
                    => subscription.trial_end_date = stripe.trial_end)
    /\ [][/\ subscription'.plan # subscription.plan
                => \E i \in 1..Len(stripe_subscription'.items) :
                       Hit(stripe_subscription'.items[i])
          /\ subscription'.trial_end_date # subscription.trial_end_date
                => stripe_subscription'.trial_end # NoDate]_vars

C20_Witness ==
    /\ stripe_subscription.items = <<"price_x", "price_basic">>
    /\ ~Hit("price_x")
    /\ \E pl \in plans : Saleable(pl, "price_x")
    /\ subscription.plan = "basic"
    /\ stripe_subscription.trial_end = NoDate
    /\ subscription.trial_end_date = "2024-05-15"
    /\ "subscription" \in saved

====
